---------------------------- MODULE Spec2Model ----------------------------
(***************************************************************************)
(* A model of aliyun-manager-mcp: the CallToolRequestSchema handler of     *)
(* src/src/index.ts and, from src/src/clients/aliyun.ts, the billing       *)
(* fetcher and aggregator (getBillingDetails) and the report renderer      *)
(* (generateBillingHtmlReport).                                            *)
(*                                                                         *)
(* Conventions.                                                            *)
(*  - A JavaScript Date is [day, tick]: the local calendar day as a count  *)
(*    of days since 1 January 2024, and the time of day as a tick  *)
(*    in 0..TicksPerDay-1.  Days all have the same length (no DST).        *)
(*  - A "YYYY-MM-DD" string is the triple <<y, m, d>> and a "YYYY-MM"      *)
(*    string the pair <<y, m>>: fixed-width zero-padded fields, so the     *)
(*    lexicographic order of the strings is the order of the tuples.       *)
(*  - Amounts are integers in units of 0.00001; for such values the        *)
(*    additions and subtractions of IEEE doubles are exact.  A value       *)
(*    printed by toFixed(4) is an integer in units of 0.0001.              *)
(*  - An absent (undefined) field of an object is a field that is not in   *)
(*    the record's DOMAIN; an undefined string is Undefined.               *)
(***************************************************************************)
EXTENDS Integers, Sequences, FiniteSets, TLC

(***************************************************************************)
(* Bounds of the model.                                                    *)
(***************************************************************************)
TicksPerDay == 2      \* clock resolution: distinct instants within a day
MaxWindow == 2        \* largest `days` requested where pages carry data
MaxPages == 2         \* the billing API ends a day's listing by this page

(***************************************************************************)
(* Program constants.                                                      *)
(***************************************************************************)
MinDays == 1
MaxDays == 30
DefaultDays == 7
DefaultPageSize == 100
BillPageSize == 300

Undefined == "undefined"

\* JavaScript truthiness of an optional string (while (nextToken), a || b).
Truthy(s) == s # Undefined /\ s # ""

OrElse(a, b) == IF Truthy(a) THEN a ELSE b

\* obj.f for an optional string field.
StrField(obj, f) == IF f \in DOMAIN obj THEN obj[f] ELSE Undefined

\* (obj.f || 0) for an optional numeric field.
NumOrZero(obj, f) == IF f \in DOMAIN obj THEN obj[f] ELSE 0

(***************************************************************************)
(* The calendar behind Date.                                               *)
(***************************************************************************)
IsLeap(y) == (y % 4 = 0 /\ y % 100 # 0) \/ y % 400 = 0

DaysInMonth(y, m) ==
    IF m = 2 THEN (IF IsLeap(y) THEN 29 ELSE 28)
    ELSE IF m \in {4, 6, 9, 11} THEN 30 ELSE 31

RECURSIVE CivilFrom(_, _, _)
CivilFrom(n, y, m) ==
    IF n < DaysInMonth(y, m) THEN <<y, m, n + 1>>
    ELSE IF m = 12 THEN CivilFrom(n - DaysInMonth(y, m), y + 1, 1)
    ELSE CivilFrom(n - DaysInMonth(y, m), y, m + 1)

\* <<year, month (1..12), day of month>> of a day number.
Civil(n) == CivilFrom(n, 2024, 1)

RECURSIVE DayNumberFrom(_, _, _, _)
DayNumberFrom(y, m, yy, mm) ==
    IF y = yy /\ m = mm THEN 0
    ELSE DaysInMonth(y, m)
         + (IF m = 12 THEN DayNumberFrom(y + 1, 1, yy, mm)
            ELSE DayNumberFrom(y, m + 1, yy, mm))

\* The day number of the first day of month mm of year yy.
FirstOfMonth(yy, mm) == DayNumberFrom(2024, 1, yy, mm)

DateOf(y, m, dd, t) == [day |-> FirstOfMonth(y, m) + dd - 1, tick |-> t]

getFullYear(date) == Civil(date.day)[1]
getMonth(date) == Civil(date.day)[2] - 1
getDate(date) == Civil(date.day)[3]

\* date.setDate(n): day n of the date's current month, n <= 0 and n past the
\* end of the month rolling into the neighbouring months; the time is kept.
setDate(date, n) ==
    [day |-> FirstOfMonth(getFullYear(date), getMonth(date) + 1) + n - 1,
     tick |-> date.tick]

\* a <= b on Dates compares the timestamps.
TimeValue(date) == date.day * TicksPerDay + date.tick
DateLeq(a, b) == TimeValue(a) <= TimeValue(b)

\* The instant `k` ticks after `date`.
Later(date, k) ==
    [day |-> date.day + ((date.tick + k) \div TicksPerDay),
     tick |-> (date.tick + k) % TicksPerDay]

formatDate(date) == <<getFullYear(date), getMonth(date) + 1, getDate(date)>>

\* getFullYear() + '-' + (getMonth() + 1).toString().padStart(2, '0')
MonthStr(date) == <<getFullYear(date), getMonth(date) + 1>>

(***************************************************************************)
(* The billing aggregator: the loop over allItems of getBillingDetails.    *)
(***************************************************************************)
EmptyObject == [k \in {} |-> 0]

ZeroValues == [original |-> 0, discount |-> 0, actual |-> 0]

\* The second half of an iteration of `for (const item of allItems)`: the
\* bucket of (date, productCode) is created if it is not there and the
\* amounts are added to it.
AddAmounts(aggregatedData, date, productCode, originalAmount, totalDiscount, actualAmount) ==
    LET withDate == IF date \in DOMAIN aggregatedData THEN aggregatedData
                    ELSE aggregatedData @@ (date :> EmptyObject)
        products == withDate[date]
        withProduct == IF productCode \in DOMAIN products THEN products
                       ELSE products @@ (productCode :> ZeroValues)
        old == withProduct[productCode]
        new == [original |-> old.original + originalAmount,
                discount |-> old.discount + totalDiscount,
                actual |-> old.actual + actualAmount]
    IN  [withDate EXCEPT ![date] = [withProduct EXCEPT ![productCode] = new]]

\* AddItem with the prepaid-card deduction left out of the total discount.
AddItem_NoPrepaidCard(aggregatedData, item) ==
    LET originalAmount == NumOrZero(item, "pretaxGrossAmount")
        totalDiscount == NumOrZero(item, "invoiceDiscount")
                         + NumOrZero(item, "deductedByCoupons")
                         + NumOrZero(item, "deductedByCashCoupons")
    IN  AddAmounts(aggregatedData, item.billingDate,
                   OrElse(StrField(item, "productCode"), "UnknownProduct"),
                   originalAmount, totalDiscount,
                   originalAmount - totalDiscount)

\* AddItem with the actual amount net of the invoice discount only.
AddItem_ActualLessInvoiceOnly(aggregatedData, item) ==
    LET originalAmount == NumOrZero(item, "pretaxGrossAmount")
        totalDiscount == NumOrZero(item, "invoiceDiscount")
                         + NumOrZero(item, "deductedByCoupons")
                         + NumOrZero(item, "deductedByCashCoupons")
                         + NumOrZero(item, "deductedByPrepaidCard")
    IN  AddAmounts(aggregatedData, item.billingDate,
                   OrElse(StrField(item, "productCode"), "UnknownProduct"),
                   originalAmount, totalDiscount,
                   originalAmount - NumOrZero(item, "invoiceDiscount"))

\* One iteration of `for (const item of allItems)`.
AddItem(aggregatedData, item) ==
    LET date == item.billingDate
        productCode == OrElse(StrField(item, "productCode"), "UnknownProduct")
        originalAmount == NumOrZero(item, "pretaxGrossAmount")
        invoiceDiscount == NumOrZero(item, "invoiceDiscount")
        couponDiscount == NumOrZero(item, "deductedByCoupons")
        cashCouponDiscount == NumOrZero(item, "deductedByCashCoupons")
        prepaidCardDiscount == NumOrZero(item, "deductedByPrepaidCard")
        totalDiscount == invoiceDiscount + couponDiscount
                         + cashCouponDiscount + prepaidCardDiscount
        actualAmount == originalAmount - totalDiscount
    IN  AddAmounts(aggregatedData, date, productCode, originalAmount,
                   totalDiscount, actualAmount)

RECURSIVE AggregateFrom(_, _, _)
AggregateFrom(aggregatedData, items, k) ==
    IF k > Len(items) THEN aggregatedData
    ELSE AggregateFrom(AddItem(aggregatedData, items[k]), items, k + 1)

\* aggregatedData after the loop has processed all of `items`.
Aggregate(items) == AggregateFrom(EmptyObject, items, 1)

(***************************************************************************)
(* The report renderer, generateBillingHtmlReport.  The document is the    *)
(* sequence of its table rows; each amount cell holds what toFixed(4)      *)
(* prints.                                                                 *)
(***************************************************************************)
\* Number.prototype.toFixed(4) of an amount: the nearest multiple of 0.0001,
\* the larger one of two equally near, the sign handled apart.
toFixed(v) ==
    IF v < 0 THEN -((-v + 5) \div 10) ELSE (v + 5) \div 10

\* Array.prototype.sort() on "YYYY-MM-DD" strings.
DateLess(a, b) ==
    \/ a[1] < b[1]
    \/ a[1] = b[1] /\ a[2] < b[2]
    \/ a[1] = b[1] /\ a[2] = b[2] /\ a[3] < b[3]

\* The first UTF-16 code unit of the product codes that occur; they differ
\* in it, and sort() orders strings by code units.
FirstCodeUnit == ("UnknownProduct" :> 85) @@ ("ecs" :> 101) @@ ("oss" :> 111)

ProductLess(a, b) == FirstCodeUnit[a] < FirstCodeUnit[b]

RECURSIVE SortDates(_)
SortDates(S) ==
    IF S = {} THEN <<>>
    ELSE LET m == CHOOSE x \in S : \A y \in S \ {x} : DateLess(x, y)
         IN  <<m>> \o SortDates(S \ {m})

RECURSIVE SortProducts(_)
SortProducts(S) ==
    IF S = {} THEN <<>>
    ELSE LET m == CHOOSE x \in S : \A y \in S \ {x} : ProductLess(x, y)
         IN  <<m>> \o SortProducts(S \ {m})

\* ProductRows with the date's discount total fed from the original amounts.
RECURSIVE ProductRows_DiscountFromOriginal(_, _, _, _, _)
ProductRows_DiscountFromOriginal(date, products, sortedProducts, k, acc) ==
    IF k > Len(sortedProducts) THEN acc
    ELSE LET productCode == sortedProducts[k]
             values == products[productCode]
             row == [kind |-> "product",
                     dateCell |-> IF acc.isFirstRowForDate THEN date ELSE <<>>,
                     productCode |-> productCode,
                     original |-> toFixed(values.original),
                     discount |-> toFixed(values.discount),
                     actual |-> toFixed(values.actual)]
         IN  ProductRows_DiscountFromOriginal(date, products, sortedProducts,
                 k + 1,
                 [rows |-> Append(acc.rows, row),
                  dateTotalOriginal |-> acc.dateTotalOriginal + values.original,
                  dateTotalDiscount |-> acc.dateTotalDiscount + values.original,
                  dateTotalActual |-> acc.dateTotalActual + values.actual,
                  isFirstRowForDate |-> FALSE])

\* The inner loop over sortedProducts from index k on: the rows emitted and
\* the running date totals.
RECURSIVE ProductRows(_, _, _, _, _)
ProductRows(date, products, sortedProducts, k, acc) ==
    IF k > Len(sortedProducts) THEN acc
    ELSE LET productCode == sortedProducts[k]
             values == products[productCode]
             row == [kind |-> "product",
                     dateCell |-> IF acc.isFirstRowForDate THEN date ELSE <<>>,
                     productCode |-> productCode,
                     original |-> toFixed(values.original),
                     discount |-> toFixed(values.discount),
                     actual |-> toFixed(values.actual)]
         IN  ProductRows(date, products, sortedProducts, k + 1,
                 [rows |-> Append(acc.rows, row),
                  dateTotalOriginal |-> acc.dateTotalOriginal + values.original,
                  dateTotalDiscount |-> acc.dateTotalDiscount + values.discount,
                  dateTotalActual |-> acc.dateTotalActual + values.actual,
                  isFirstRowForDate |-> FALSE])

\* The outer loop over sortedDates from index k on.
RECURSIVE DateRows(_, _, _, _)
DateRows(billingData, sortedDates, k, acc) ==
    IF k > Len(sortedDates) THEN acc
    ELSE LET date == sortedDates[k]
             products == billingData[date]
             inner == ProductRows(date, products,
                          SortProducts(DOMAIN products), 1,
                          [rows |-> acc.tableRows,
                           dateTotalOriginal |-> 0,
                           dateTotalDiscount |-> 0,
                           dateTotalActual |-> 0,
                           isFirstRowForDate |-> TRUE])
             subtotal == [kind |-> "subtotal",
                          date |-> date,
                          original |-> toFixed(inner.dateTotalOriginal),
                          discount |-> toFixed(inner.dateTotalDiscount),
                          actual |-> toFixed(inner.dateTotalActual)]
         IN  DateRows(billingData, sortedDates, k + 1,
                 [tableRows |-> Append(inner.rows, subtotal),
                  overallTotalOriginal |->
                      acc.overallTotalOriginal + inner.dateTotalOriginal,
                  overallTotalDiscount |->
                      acc.overallTotalDiscount + inner.dateTotalDiscount,
                  overallTotalActual |->
                      acc.overallTotalActual + inner.dateTotalActual])

generateBillingHtmlReport(billingData) ==
    LET body == DateRows(billingData, SortDates(DOMAIN billingData), 1,
                    [tableRows |-> <<>>,
                     overallTotalOriginal |-> 0,
                     overallTotalDiscount |-> 0,
                     overallTotalActual |-> 0])
    IN  Append(body.tableRows,
               [kind |-> "grand",
                original |-> toFixed(body.overallTotalOriginal),
                discount |-> toFixed(body.overallTotalDiscount),
                actual |-> toFixed(body.overallTotalActual)])

(***************************************************************************)
(* State.  One tool invocation is one run of the CallToolRequestSchema     *)
(* handler; Invocations are the runs that may be in progress together.     *)
(* Every variable but env maps an invocation to the handler's or           *)
(* getBillingDetails' local of that name.                                  *)
(***************************************************************************)
Invocations == {1, 2}

VARIABLES
    env,        \* process.env.ALIBABA_CLOUD_REGION, read at each use
    pc,         \* where the run is suspended: the await it is waiting at
    toolName,   \* toolRequest.params.name
    args,       \* toolRequest.params.arguments || {}
    days,       \* the argument of getBillingDetails
    endDate,
    startDate,
    d,          \* the day loop's Date
    nextToken,
    pageNum,
    allItems,   \* the item accumulator
    request,    \* the request awaited, if any
    reqLog,     \* history: the billing requests issued, in order
    respLog,    \* history: the answers to them, in order
    billingData,\* the aggregate getBillingDetails returned to the handler
    outcome,    \* how the run ended: a result, or the McpError thrown
    html,       \* htmlContent
    fault       \* history: the operation that threw, if any

vars == <<env, pc, toolName, args, days, endDate, startDate, d, nextToken,
          pageNum, allItems, request, reqLog, respLog, billingData, outcome,
          html, fault>>

NoDate == [day |-> 0, tick |-> 0]
NoRequest == [pending |-> FALSE]
Pending == [kind |-> "pending"]

KnownTools == {"list_instances", "get_billing_info", "export_billing_report"}

\* AccumulatorOf for an accumulator declared at module level: one array
\* for all the runs.
AccumulatorOf_Shared(i) == 1

\* `let allItems: any[] = []` is a local of the call: each run of
\* getBillingDetails has an accumulator of its own.
AccumulatorOf(i) == i

\* The locals of run i, as one record.
Locals(i) ==
    [pc |-> pc[i], toolName |-> toolName[i], args |-> args[i],
     days |-> days[i], endDate |-> endDate[i], startDate |-> startDate[i],
     d |-> d[i], nextToken |-> nextToken[i], pageNum |-> pageNum[i],
     allItems |-> allItems[AccumulatorOf(i)], request |-> request[i],
     reqLog |-> reqLog[i], respLog |-> respLog[i],
     billingData |-> billingData[i], outcome |-> outcome[i],
     html |-> html[i], fault |-> fault[i]]

\* Run i's locals become L; nothing else changes.
Store(i, L) ==
    /\ pc' = [pc EXCEPT ![i] = L.pc]
    /\ toolName' = [toolName EXCEPT ![i] = L.toolName]
    /\ args' = [args EXCEPT ![i] = L.args]
    /\ days' = [days EXCEPT ![i] = L.days]
    /\ endDate' = [endDate EXCEPT ![i] = L.endDate]
    /\ startDate' = [startDate EXCEPT ![i] = L.startDate]
    /\ d' = [d EXCEPT ![i] = L.d]
    /\ nextToken' = [nextToken EXCEPT ![i] = L.nextToken]
    /\ pageNum' = [pageNum EXCEPT ![i] = L.pageNum]
    /\ allItems' = [allItems EXCEPT ![AccumulatorOf(i)] = L.allItems]
    /\ request' = [request EXCEPT ![i] = L.request]
    /\ reqLog' = [reqLog EXCEPT ![i] = L.reqLog]
    /\ respLog' = [respLog EXCEPT ![i] = L.respLog]
    /\ billingData' = [billingData EXCEPT ![i] = L.billingData]
    /\ outcome' = [outcome EXCEPT ![i] = L.outcome]
    /\ html' = [html EXCEPT ![i] = L.html]
    /\ fault' = [fault EXCEPT ![i] = L.fault]
    /\ UNCHANGED env

(***************************************************************************)
(* The handler's argument handling.                                        *)
(***************************************************************************)
Num(n) == [type |-> "number", num |-> n]
NaN == [type |-> "number", nan |-> TRUE]
Str(s) == [type |-> "string", str |-> s]

\* v >= lo && v <= hi for a value of type number; false for NaN.
NumBetween(v, lo, hi) == "num" \in DOMAIN v /\ v.num >= lo /\ v.num <= hi

\* CoerceDays without the upper limit.
CoerceDays_NoUpperLimit(a) ==
    IF "days" \in DOMAIN a /\ a.days.type = "number"
       /\ "num" \in DOMAIN a.days /\ a.days.num >= MinDays
    THEN a.days.num
    ELSE DefaultDays

\* typeof args.days === 'number' && args.days >= 1 && args.days <= 30
\*     ? args.days : 7
CoerceDays(a) ==
    IF "days" \in DOMAIN a /\ a.days.type = "number"
       /\ NumBetween(a.days, MinDays, MaxDays)
    THEN a.days.num
    ELSE DefaultDays

\* (typeof args.output_path === 'string' && args.output_path.trim() !== '')
\*     ? args.output_path : 'exported/aliyun_billing_report.html'
OutputPath(a) ==
    IF "output_path" \in DOMAIN a /\ a.output_path.type = "string"
       /\ a.output_path.str \notin {"", " "}
    THEN a.output_path.str
    ELSE "exported/aliyun_billing_report.html"

\* args.region || process.env.ALIBABA_CLOUD_REGION
RegionOf(a) == OrElse(StrField(a, "region"), env)

\* The declared default of list_instances' `region` (inputSchema).
SchemaDefaultRegion == "cn-hangzhou"

\* const { ALIBABA_CLOUD_REGION = 'cn-beijing' } = process.env, the region
\* of the ECS endpoint.
EndpointRegion == IF env = Undefined THEN "cn-beijing" ELSE env

\* args.pageSize || 100
PageSizeOf(a) ==
    IF "pageSize" \in DOMAIN a /\ a.pageSize # 0 THEN a.pageSize
    ELSE DefaultPageSize

\* CatchCode of a catch block that reports the caller's request as invalid.
CatchCode_InvalidRequest == "InvalidRequest"

\* The code of the McpError a tool's catch block throws.
CatchCode == "InternalError"

\* A throw inside a tool's try block, as the handler's catch turns it.
Throw(L, cause) ==
    [L EXCEPT !.pc = "done", !.request = NoRequest, !.fault = cause,
              !.outcome = [kind |-> "error", code |-> CatchCode,
                           message |-> cause]]

(***************************************************************************)
(* getBillingDetails, cut at its awaits.                                   *)
(***************************************************************************)
\* IssueRequest with every request built without a continuation token.
IssueRequest_NoToken(L) ==
    LET currentDate == L.d
        req == [billingCycle |-> MonthStr(currentDate),
                billingDate |-> formatDate(currentDate),
                granularity |-> "DAILY",
                isBillingItem |-> FALSE,
                pageSize |-> BillPageSize,
                nextToken |-> Undefined]
    IN  [L EXCEPT !.pc = "awaitBill", !.request = req,
                  !.reqLog = Append(@, req)]

\* new QueryInstanceBillRequest({...}) and the call of queryInstanceBill.
IssueRequest(L) ==
    LET currentDate == L.d
        req == [billingCycle |-> MonthStr(currentDate),
                billingDate |-> formatDate(currentDate),
                granularity |-> "DAILY",
                isBillingItem |-> FALSE,
                pageSize |-> BillPageSize,
                nextToken |-> L.nextToken]
    IN  [L EXCEPT !.pc = "awaitBill", !.request = req,
                  !.reqLog = Append(@, req)]

\* What the handler does with the aggregate getBillingDetails returns, up
\* to its next await.
Returned(L, aggregatedData) ==
    IF L.toolName = "get_billing_info"
    THEN [L EXCEPT !.pc = "done", !.billingData = aggregatedData,
                   !.outcome = [kind |-> "success",
                                billingData |-> aggregatedData]]
    ELSE [L EXCEPT !.pc = "awaitMkdir", !.billingData = aggregatedData,
                   !.html = generateBillingHtmlReport(aggregatedData)]

\* The day loop at its test `d <= endDate`: the first request of day d, or
\* past the last day the aggregation and the return.
DayLoop(L) ==
    IF DateLeq(L.d, L.endDate)
    THEN IssueRequest([L EXCEPT !.nextToken = Undefined, !.pageNum = 1])
    ELSE Returned(L, Aggregate(L.allItems))

\* TakeResponse with the page assigned to the accumulator, not appended.
TakeResponse_Overwrite(L, resp) ==
    LET entry == [billingDate |-> L.request.billingDate,
                  pageNum |-> L.pageNum, resp |-> resp]
        taken == IF resp.ok
                 THEN [L EXCEPT !.allItems = resp.items,
                                !.nextToken = resp.nextToken]
                 ELSE [L EXCEPT !.nextToken = Undefined]
    IN  [taken EXCEPT !.pageNum = @ + 1, !.request = NoRequest,
                      !.respLog = Append(@, entry)]

\* TakeResponse with a catch block that leaves nextToken as it was.
TakeResponse_KeepToken(L, resp) ==
    LET entry == [billingDate |-> L.request.billingDate,
                  pageNum |-> L.pageNum, resp |-> resp]
        taken == IF resp.ok
                 THEN [L EXCEPT !.allItems = IF Len(resp.items) > 0
                                             THEN @ \o resp.items ELSE @,
                                !.nextToken = resp.nextToken]
                 ELSE L
    IN  [taken EXCEPT !.pageNum = @ + 1, !.request = NoRequest,
                      !.respLog = Append(@, entry)]

\* TakeResponse with a catch block that also removes from the accumulator
\* the items already received for the day of the failed request.
TakeResponse_DropDay(L, resp) ==
    LET entry == [billingDate |-> L.request.billingDate,
                  pageNum |-> L.pageNum, resp |-> resp]
        kept == SelectSeq(L.allItems,
                          LAMBDA it : it.billingDate # L.request.billingDate)
        taken == IF resp.ok
                 THEN [L EXCEPT !.allItems = IF Len(resp.items) > 0
                                             THEN @ \o resp.items ELSE @,
                                !.nextToken = resp.nextToken]
                 ELSE [L EXCEPT !.allItems = kept, !.nextToken = Undefined]
    IN  [taken EXCEPT !.pageNum = @ + 1, !.request = NoRequest,
                      !.respLog = Append(@, entry)]

\* The body of the inner try/catch on a response, then `pageNum++`.
TakeResponse(L, resp) ==
    LET entry == [billingDate |-> L.request.billingDate,
                  pageNum |-> L.pageNum, resp |-> resp]
        taken == IF resp.ok
                 THEN [L EXCEPT !.allItems = IF Len(resp.items) > 0
                                             THEN @ \o resp.items ELSE @,
                                !.nextToken = resp.nextToken]
                 ELSE [L EXCEPT !.nextToken = Undefined]
    IN  [taken EXCEPT !.pageNum = @ + 1, !.request = NoRequest,
                      !.respLog = Append(@, entry)]

\* AfterResponse without the inner try/catch: a failed page request is
\* thrown out of getBillingDetails.
AfterResponse_Rethrow(L) ==
    IF ~L.respLog[Len(L.respLog)].resp.ok THEN Throw(L, "queryInstanceBill")
    ELSE IF Truthy(L.nextToken) THEN IssueRequest(L)
    ELSE DayLoop([L EXCEPT !.d = setDate(@, getDate(@) + 1)])

\* `while (nextToken)`, and the day loop's `d.setDate(d.getDate() + 1)`.
AfterResponse(L) ==
    IF Truthy(L.nextToken) THEN IssueRequest(L)
    ELSE DayLoop([L EXCEPT !.d = setDate(@, getDate(@) + 1)])

\* getBillingDetails(n) from its call to its first await; clock is the pair
\* of readings of `new Date()` for endDate and for startDate.
getBillingDetails(L0, n, clock, clientOk) ==
    LET L == [L0 EXCEPT !.days = n]
    IN  IF n < MinDays \/ n > MaxDays THEN Throw(L, "rangeCheck")
        ELSE IF ~clientOk THEN Throw(L, "createBillingClient")
        ELSE LET end == clock[1]
                 start == setDate(clock[2], getDate(end) - n + 1)
             IN  DayLoop([L EXCEPT !.endDate = end, !.startDate = start,
                                   !.d = start, !.allItems = <<>>])

(***************************************************************************)
(* The handler from its entry to its first await.                          *)
(***************************************************************************)
StartTool(L0, tool, a, clock, clientOk) ==
    LET L == [L0 EXCEPT !.toolName = tool, !.args = a]
    IN  IF tool = "list_instances"
        THEN IF ~clientOk THEN Throw(L, "createEcsClient")
             ELSE [L EXCEPT !.pc = "awaitDescribe",
                            !.request = [endpoint |-> EndpointRegion,
                                         regionId |-> RegionOf(a),
                                         pageSize |-> PageSizeOf(a)]]
        ELSE IF tool \in {"get_billing_info", "export_billing_report"}
        THEN getBillingDetails(L, CoerceDays(a), clock, clientOk)
        ELSE [L EXCEPT !.pc = "done",
                       !.outcome = [kind |-> "error",
                                    code |-> "MethodNotFound",
                                    message |-> tool]]

(***************************************************************************)
(* The billing API: the answers queryInstanceBill can give to a request.   *)
(***************************************************************************)
ItemA == [productCode |-> "ecs", pretaxGrossAmount |-> 104,
          invoiceDiscount |-> 10, deductedByCoupons |-> 3,
          deductedByCashCoupons |-> 2, deductedByPrepaidCard |-> 1]
ItemB == [pretaxGrossAmount |-> 54, deductedByCoupons |-> 5]
ItemC == [productCode |-> "oss", invoiceDiscount |-> 7]

EmptyPage == <<>>
DataPages == {EmptyPage, <<ItemB, ItemC, ItemA>>}

\* The items of a page as the API returns them for a requested day.
Dated(page, billingDate) ==
    [k \in 1..Len(page) |-> [billingDate |-> billingDate] @@ page[k]]

\* The continuation token the API gives with page n of a day.
TokenAfter(n) == "page-" \o ToString(n + 1)

\* The answers to the request run i awaits: a failure (if mayFail), or one
\* of `pages` with or without a continuation token (with one only if
\* mayContinue, and never on page MaxPages).
BillResponses(i, pages, mayContinue, mayFail) ==
    LET tokens == {Undefined} \cup
                  (IF mayContinue /\ pageNum[i] < MaxPages
                   THEN {TokenAfter(pageNum[i])} ELSE {})
    IN  {[ok |-> TRUE, items |-> Dated(p, request[i].billingDate),
          nextToken |-> t] : p \in pages, t \in tokens}
        \cup (IF mayFail THEN {[ok |-> FALSE]} ELSE {})

(***************************************************************************)
(* The instance-listing API and the handler's use of its answer.           *)
(***************************************************************************)
Instance1 == [instanceId |-> "i-1", status |-> "Running",
              publicIpAddress |-> "47.0.0.1"]
Instance2 == [instanceId |-> "i-2", status |-> "Stopped"]

DescribeResponses ==
    {[ok |-> FALSE]} \cup
    {[ok |-> TRUE, instances |-> l] :
        l \in {<<>>, <<Instance1>>, <<Instance2, Instance1>>}}

\* The mapping of one instance record (the fields the model keeps).
Summary(instance, a) ==
    [id |-> instance.instanceId,
     status |-> instance.status,
     publicIp |-> IF "publicIpAddress" \in DOMAIN instance
                  THEN instance.publicIpAddress ELSE "null",
     region |-> RegionOf(a)]

ListResult(L, resp) ==
    IF ~resp.ok THEN Throw(L, "describeInstances")
    ELSE [L EXCEPT !.pc = "done", !.request = NoRequest,
                   !.outcome =
                       [kind |-> "success",
                        instances |-> [k \in 1..Len(resp.instances) |->
                                          Summary(resp.instances[k], L.args)],
                        total |-> Len(resp.instances),
                        region |-> RegionOf(L.args)]]

(***************************************************************************)
(* Actions: one per point where a run starts or resumes.                   *)
(***************************************************************************)
\* A tool invocation arrives and runs to its first await (or to its end).
CallTool(i, tools, argSets, clocks, clientOks) ==
    /\ pc[i] = "idle"
    /\ \E tool \in tools, a \in argSets, clock \in clocks, ok \in clientOks :
           Store(i, StartTool(Locals(i), tool, a, clock, ok))

\* queryInstanceBill settles and the run goes on to its next await.
BillResponse(i, pages, mayContinue, mayFail) ==
    /\ pc[i] = "awaitBill"
    /\ \E resp \in BillResponses(i, pages, mayContinue, mayFail) :
           Store(i, AfterResponse(TakeResponse(Locals(i), resp)))

\* describeInstances settles.
DescribeResponse(i) ==
    /\ pc[i] = "awaitDescribe"
    /\ \E resp \in DescribeResponses : Store(i, ListResult(Locals(i), resp))

\* mkdir(path.dirname(finalOutputPath), {recursive: true}) settles.
MkdirDone(i) ==
    /\ pc[i] = "awaitMkdir"
    /\ \E ok \in BOOLEAN :
           Store(i, IF ok THEN [Locals(i) EXCEPT !.pc = "awaitWrite"]
                    ELSE Throw(Locals(i), "mkdir"))

\* writeFile(finalOutputPath, htmlContent, 'utf8') settles.
WriteDone(i) ==
    /\ pc[i] = "awaitWrite"
    /\ \E ok \in BOOLEAN :
           Store(i, IF ok
                    THEN [Locals(i) EXCEPT
                             !.pc = "done",
                             !.outcome = [kind |-> "success",
                                          path |-> OutputPath(args[i])]]
                    ELSE Throw(Locals(i), "writeFile"))

(***************************************************************************)
(* Initial states and inputs.                                              *)
(***************************************************************************)
InitWith(regions) ==
    /\ env \in regions
    /\ pc = [i \in Invocations |-> "idle"]
    /\ toolName = [i \in Invocations |-> Undefined]
    /\ args = [i \in Invocations |-> EmptyObject]
    /\ days = [i \in Invocations |-> 0]
    /\ endDate = [i \in Invocations |-> NoDate]
    /\ startDate = [i \in Invocations |-> NoDate]
    /\ d = [i \in Invocations |-> NoDate]
    /\ nextToken = [i \in Invocations |-> Undefined]
    /\ pageNum = [i \in Invocations |-> 1]
    /\ allItems = [i \in Invocations |-> <<>>]
    /\ request = [i \in Invocations |-> NoRequest]
    /\ reqLog = [i \in Invocations |-> <<>>]
    /\ respLog = [i \in Invocations |-> <<>>]
    /\ billingData = [i \in Invocations |-> EmptyObject]
    /\ outcome = [i \in Invocations |-> Pending]
    /\ html = [i \in Invocations |-> <<>>]
    /\ fault = [i \in Invocations |-> "none"]

\* Two readings of the clock, the second `k` ticks after the first.
ClockPairs(instants, deltas) ==
    {<<t, Later(t, k)>> : t \in instants, k \in deltas}

BillingTools == {"get_billing_info", "export_billing_report"}

\* The arguments {days: n} for the windows of up to MaxWindow days.
WindowArgs == {[days |-> Num(n)] : n \in 1..MaxWindow}

\* Windows that end on 1 March 2025 and on 1 January 2025, the second clock
\* reading at the same instant as the first or one tick later.
FetchClock ==
    ClockPairs({DateOf(2025, 3, 1, 0), DateOf(2025, 1, 1, 1)}, {0, 1})

\* Specification Spec: one get_billing_info invocation over a window of up
\* to MaxWindow days, against an API that answers each request with any
\* page of DataPages, with or without a continuation token, or fails.
Init == InitWith({"cn-beijing"})

Next ==
    \/ CallTool(1, {"get_billing_info"}, WindowArgs, FetchClock, {TRUE})
    \/ BillResponse(1, DataPages, TRUE, TRUE)

Spec == Init /\ [][Next]_vars

\* The answer to the request run 1 awaits arrives: the effect of
\* BillResponse(1, DataPages, TRUE, TRUE) on respLog alone.  Under Next the
\* steps that change respLog in this way are the steps of that action, and
\* both are enabled exactly when the run is suspended at queryInstanceBill
\* (AnswerArrivesIsBillResponse).
AnswerArrives ==
    /\ pc[1] = "awaitBill"
    /\ \E resp \in BillResponses(1, DataPages, TRUE, TRUE) :
           respLog' = [respLog EXCEPT ![1] =
                          Append(@, [billingDate |-> request[1].billingDate,
                                     pageNum |-> pageNum[1], resp |-> resp])]

AnswerArrivesIsBillResponse ==
    [][<<AnswerArrives>>_respLog
           <=> <<BillResponse(1, DataPages, TRUE, TRUE)>>_vars]_vars

\* Every page request awaited is eventually settled: the promise of
\* queryInstanceBill resolves or rejects, and the run resumes.
RequestsSettle == WF_respLog(AnswerArrives)

\* Specification SpecLive: Spec with every page request eventually settled.
\* The API ends a day's listing, with a page without a continuation token
\* or with a failure, by page MaxPages at the latest.
SpecLive == Init /\ [][Next]_vars /\ RequestsSettle

\* Specification SpecReport: one export_billing_report invocation over the
\* same windows, against an API that answers each request with any page of
\* DataPages, with or without a continuation token.
NextReport ==
    \/ CallTool(1, {"export_billing_report"}, WindowArgs, FetchClock, {TRUE})
    \/ BillResponse(1, DataPages, TRUE, FALSE)
    \/ MkdirDone(1)
    \/ WriteDone(1)

SpecReport == Init /\ [][NextReport]_vars

\* Every number of days getBillingDetails accepts.
AllowedArgs == {[days |-> Num(n)] : n \in MinDays..MaxDays}

\* Clock readings around the ends of months and of a year, at every time of
\* day, the second reading at the same instant as the first or one tick
\* later (past midnight when the first is the day's last tick).
WindowInstants ==
    {DateOf(ymd[1], ymd[2], ymd[3], t) :
        ymd \in {<<2024, 12, 31>>, <<2025, 1, 1>>, <<2025, 1, 31>>,
                 <<2025, 2, 28>>, <<2025, 3, 1>>, <<2025, 3, 3>>},
        t \in 0..(TicksPerDay - 1)}

WindowClock == ClockPairs(WindowInstants, {0, 1})

\* Specification SpecWindow: one get_billing_info invocation for any
\* accepted number of days, at any of the clock readings of WindowClock,
\* against an API that answers every request with an empty last page.
NextWindow ==
    \/ CallTool(1, {"get_billing_info"}, AllowedArgs, WindowClock, {TRUE})
    \/ BillResponse(1, {EmptyPage}, FALSE, FALSE)

SpecWindow == Init /\ [][NextWindow]_vars

\* Tool names: the three the handler knows and one it does not.
ToolNames == KnownTools \cup {"delete_instance"}

\* Argument objects: none, `days` absent, of another type, NaN, out of
\* range and in range, and `region` given, empty and absent.
ToolArgs ==
    {EmptyObject}
    \cup {[days |-> v] : v \in {Str("abc"), NaN, Num(0), Num(31), Num(-1),
                                Num(1), Num(2)}}
    \cup {[region |-> r] : r \in {"cn-shanghai", ""}}
    \cup {[region |-> "cn-shanghai", pageSize |-> 10],
          [days |-> Num(2), output_path |-> Str("reports/march.html")],
          [days |-> Str("7"), output_path |-> Str(" ")]}

\* The values process.env.ALIBABA_CLOUD_REGION can have: unset, or set.
EnvRegions == {Undefined, "cn-beijing", "cn-hangzhou"}

\* Specification SpecTools: one invocation of any tool with any of
\* ToolArgs, in any environment of EnvRegions; client construction, the
\* instance listing, each billing page request, mkdir and writeFile may
\* each fail; the billing API answers with an empty last page.
InitTools == InitWith(EnvRegions)

NextTools ==
    \/ CallTool(1, ToolNames, ToolArgs,
                ClockPairs({DateOf(2025, 3, 1, 0)}, {0}), BOOLEAN)
    \/ BillResponse(1, {EmptyPage}, FALSE, TRUE)
    \/ DescribeResponse(1)
    \/ MkdirDone(1)
    \/ WriteDone(1)

SpecTools == InitTools /\ [][NextTools]_vars

\* Specification SpecConc: two billing invocations in progress together,
\* each suspended at every page request and resumed in any order:
\* get_billing_info over one or two days, export_billing_report over one;
\* the API answers each request with a page of one item, with or without a
\* continuation token, or fails.
ConcPages == {<<ItemA>>}

NextConc ==
    \E i \in Invocations :
        \/ CallTool(i, {"get_billing_info"}, {[days |-> Num(n)] : n \in {1, 2}},
                    FetchClock, {TRUE})
        \/ CallTool(i, {"export_billing_report"}, {[days |-> Num(1)]},
                    FetchClock, {TRUE})
        \/ BillResponse(i, ConcPages, TRUE, TRUE)
        \/ MkdirDone(i)
        \/ WriteDone(i)

SpecConc == Init /\ [][NextConc]_vars

(***************************************************************************)
(* Vocabulary of the properties.                                           *)
(***************************************************************************)
\* Run i's getBillingDetails has returned its aggregate to the handler.
FetchOver(i) ==
    /\ toolName[i] \in BillingTools
    /\ pc[i] \in {"awaitMkdir", "awaitWrite", "done"}
    /\ fault[i] \notin {"rangeCheck", "createBillingClient"}

\* The answers of a log that were given for `date`.
EntriesOn(log, date) == SelectSeq(log, LAMBDA e : e.billingDate = date)

\* The items of the successful answers of a log, in the order received.
RECURSIVE ItemsOf(_)
ItemsOf(log) ==
    IF log = <<>> THEN <<>>
    ELSE (IF Head(log).resp.ok THEN Head(log).resp.items ELSE <<>>)
         \o ItemsOf(Tail(log))

ItemsOn(items, date) == SelectSeq(items, LAMBDA it : it.billingDate = date)

AllOk(log) == \A k \in 1..Len(log) : log[k].resp.ok
SomeFailed(log) == \E k \in 1..Len(log) : ~log[k].resp.ok

DatesAsked(i) == {reqLog[i][k].billingDate : k \in 1..Len(reqLog[i])}

\* The days `for (d = startDate; d <= endDate; d + 1 day)` visits.
RECURSIVE LoopDays(_, _)
LoopDays(from, to) ==
    IF DateLeq(from, to)
    THEN {formatDate(from)} \cup LoopDays(setDate(from, getDate(from) + 1), to)
    ELSE {}

\* The product code an item is counted under.
CodeOf(item) ==
    IF "productCode" \in DOMAIN item THEN item.productCode
    ELSE "UnknownProduct"

Sel(items, date, code) ==
    SelectSeq(items, LAMBDA it : it.billingDate = date /\ CodeOf(it) = code)

Field(item, f) == IF f \in DOMAIN item THEN item[f] ELSE 0

DiscountFields == {"invoiceDiscount", "deductedByCoupons",
                   "deductedByCashCoupons", "deductedByPrepaidCard"}

\* The sum of field f over a sequence of items, absent fields as zero.
RECURSIVE SumField(_, _)
SumField(items, f) ==
    IF items = <<>> THEN 0
    ELSE Field(Head(items), f) + SumField(Tail(items), f)

RECURSIVE SumFields(_, _)
SumFields(items, fs) ==
    IF fs = {} THEN 0
    ELSE LET f == CHOOSE x \in fs : TRUE
         IN  SumField(items, f) + SumFields(items, fs \ {f})

HasBucket(agg, date, code) ==
    date \in DOMAIN agg /\ code \in DOMAIN agg[date]

Codes == {"ecs", "oss", "UnknownProduct"}

\* C1: a failed page request on one day leaves the items obtained for every
\* other day in the accumulator as they were received, the day loop still
\* asks for every day of its range, and the operation returns the aggregate
\* of what was received instead of failing.
C1_PerDayErrorIsolation ==
    \A i \in Invocations :
        /\ \A date \in DatesAsked(i) :
               ItemsOn(allItems[i], date)
                   = ItemsOf(EntriesOn(respLog[i], date))
        /\ FetchOver(i) =>
               /\ DatesAsked(i) = LoopDays(startDate[i], endDate[i])
               /\ fault[i] \notin {"queryInstanceBill"}
               /\ billingData[i] = Aggregate(ItemsOf(respLog[i]))
               /\ toolName[i] = "get_billing_info" =>
                      /\ outcome[i].kind = "success"
                      /\ outcome[i].billingData = billingData[i]

\* C1's case: the first day's request failed, the second day's items are in
\* the aggregate returned.
C1_Witness ==
    /\ pc[1] = "done" /\ toolName[1] = "get_billing_info"
    /\ Len(respLog[1]) >= 2
    /\ ~respLog[1][1].resp.ok
    /\ \E date \in DOMAIN billingData[1] :
           /\ date # respLog[1][1].billingDate
           /\ HasBucket(outcome[1].billingData, date, "ecs")

\* C2: for a day whose page requests have all succeeded, every answer but
\* the last carried a continuation token and was followed by one more
\* request, no request followed an answer without a token, and the items of
\* all its pages are in the accumulator, each once and in order; once the
\* fetch is over they are all counted in the day's buckets.
C2_PaginationComplete ==
    \A i \in Invocations : \A date \in DatesAsked(i) :
        LET answers == EntriesOn(respLog[i], date)
            asked == SelectSeq(reqLog[i], LAMBDA r : r.billingDate = date)
        IN  AllOk(answers) =>
              /\ \A k \in 1..Len(answers) :
                     Truthy(answers[k].resp.nextToken) <=> k < Len(asked)
              /\ Len(asked) <= Len(answers) + 1
              /\ ItemsOn(allItems[i], date) = ItemsOf(answers)
              /\ FetchOver(i) =>
                   \A code \in Codes :
                       LET mine == Sel(ItemsOf(answers), date, code)
                       IN  mine # <<>> =>
                             /\ HasBucket(billingData[i], date, code)
                             /\ billingData[i][date][code].original
                                    = SumField(mine, "pretaxGrossAmount")

\* C2's case: a day answered by a page with a token and then a page without
\* one, both with items, the fetch over.
C2_Witness ==
    /\ FetchOver(1)
    /\ \E k \in 1..(Len(respLog[1]) - 1) :
           /\ respLog[1][k].resp.ok /\ respLog[1][k + 1].resp.ok
           /\ respLog[1][k].billingDate = respLog[1][k + 1].billingDate
           /\ Truthy(respLog[1][k].resp.nextToken)
           /\ ~Truthy(respLog[1][k + 1].resp.nextToken)
           /\ respLog[1][k].resp.items # <<>>
           /\ respLog[1][k + 1].resp.items # <<>>

\* C4: the aggregate returned has a bucket for (date, product code) exactly
\* when some fetched item has that date and that code, an absent code
\* counting as "UnknownProduct"; a date has an entry only with a bucket in
\* it; and a bucket's original and discount are the sums of
\* pretaxGrossAmount and of the four discount fields over those items,
\* absent fields as zero, every occurrence counted.
C4_AggregateMatchesReference ==
    \A i \in Invocations : FetchOver(i) =>
        LET fetched == ItemsOf(respLog[i])
            agg == billingData[i]
        IN  /\ \A date \in DOMAIN agg :
                   /\ date \in DatesAsked(i)
                   /\ DOMAIN agg[date] # {}
                   /\ DOMAIN agg[date] \subseteq Codes
            /\ \A date \in DatesAsked(i), code \in Codes :
                   LET mine == Sel(fetched, date, code)
                   IN  /\ HasBucket(agg, date, code) <=> mine # <<>>
                       /\ mine # <<>> =>
                            /\ agg[date][code].original
                                   = SumField(mine, "pretaxGrossAmount")
                            /\ agg[date][code].discount
                                   = SumFields(mine, DiscountFields)

\* C4's case: one day returned no item and has no entry, another returned
\* the same item twice and an item without a product code.
C4_Witness ==
    /\ FetchOver(1)
    /\ \E d1 \in DatesAsked(1), d2 \in DOMAIN billingData[1] :
           /\ ItemsOn(ItemsOf(respLog[1]), d1) = <<>>
           /\ AllOk(EntriesOn(respLog[1], d1))
           /\ d1 \notin DOMAIN billingData[1]
           /\ Len(Sel(ItemsOf(respLog[1]), d2, "ecs")) = 2
           /\ HasBucket(billingData[1], d2, "UnknownProduct")

\* C5: after the aggregation loop has processed any prefix of the item
\* list, and so in the aggregate returned, every bucket has
\* actual = original - discount.
C5_BucketInvariant ==
    \A i \in Invocations :
        \A n \in 0..Len(allItems[i]) :
            LET agg == Aggregate(SubSeq(allItems[i], 1, n))
            IN  \A date \in DOMAIN agg : \A code \in DOMAIN agg[date] :
                    agg[date][code].actual
                        = agg[date][code].original - agg[date][code].discount

\* C5's case: a returned bucket summed from two items, with discounts.
C5_Witness ==
    /\ FetchOver(1)
    /\ billingData[1] = Aggregate(allItems[1])
    /\ \E date \in DOMAIN billingData[1] :
           /\ HasBucket(billingData[1], date, "ecs")
           /\ Len(Sel(allItems[1], date, "ecs")) >= 2
           /\ billingData[1][date]["ecs"].discount > 0
           /\ HasBucket(billingData[1], date, "oss")
           /\ billingData[1][date]["oss"].actual < 0

\* The sum of field f over the buckets of one date of an aggregate.
RECURSIVE SumOverCodes(_, _, _)
SumOverCodes(products, codes, f) ==
    IF codes = {} THEN 0
    ELSE LET c == CHOOSE x \in codes : TRUE
         IN  products[c][f] + SumOverCodes(products, codes \ {c}, f)

DateSum(agg, date, f) == SumOverCodes(agg[date], DOMAIN agg[date], f)

\* The sum of field f over all the buckets of an aggregate.
RECURSIVE SumOverDates(_, _, _)
SumOverDates(agg, dates, f) ==
    IF dates = {} THEN 0
    ELSE LET x == CHOOSE y \in dates : TRUE
         IN  DateSum(agg, x, f) + SumOverDates(agg, dates \ {x}, f)

GrandSum(agg, f) == SumOverDates(agg, DOMAIN agg, f)

AmountColumns == {"original", "discount", "actual"}

RowsOfKind(rows, kind) == {k \in 1..Len(rows) : rows[k].kind = kind}

\* The sum of column f over the rows at the indices ks.
RECURSIVE SumRows(_, _, _)
SumRows(rows, ks, f) ==
    IF ks = {} THEN 0
    ELSE LET k == CHOOSE x \in ks : TRUE
         IN  rows[k][f] + SumRows(rows, ks \ {k}, f)

\* The product rows a subtotal row closes: those above it, back to the
\* subtotal row before.
ProductRowsAbove(rows, k) ==
    {j \in 1..(k - 1) :
        /\ rows[j].kind = "product"
        /\ \A m \in (j + 1)..(k - 1) : rows[m].kind = "product"}

\* Run i has rendered its report.
Rendered(i) == FetchOver(i) /\ toolName[i] = "export_billing_report"

\* C8 as stated: in each amount column the grand-total row is the sum of
\* the subtotal rows, and each subtotal row is the sum of the product rows
\* of its date.
C8_RowsAddUp ==
    \A i \in Invocations : Rendered(i) =>
        LET rows == html[i]
        IN  \A f \in AmountColumns :
              /\ rows[Len(rows)][f]
                     = SumRows(rows, RowsOfKind(rows, "subtotal"), f)
              /\ \A k \in RowsOfKind(rows, "subtotal") :
                     rows[k][f] = SumRows(rows, ProductRowsAbove(rows, k), f)

\* C8 as amended: the report has one grand-total row, its last, and one
\* subtotal row for each date of the aggregate and no other; in each amount
\* column a subtotal row shows, to four decimals, the sum of its date's
\* bucket values, and the grand-total row shows, to four decimals, the sum
\* of all bucket values; for the empty aggregate that is a single row of
\* zeros.
C8_ReportTotals ==
    \A i \in Invocations : Rendered(i) =>
        LET rows == html[i]
            agg == billingData[i]
            subtotals == RowsOfKind(rows, "subtotal")
        IN  /\ RowsOfKind(rows, "grand") = {Len(rows)}
            /\ \A date \in DOMAIN agg :
                   Cardinality({k \in subtotals : rows[k].date = date}) = 1
            /\ \A k \in subtotals :
                   /\ rows[k].date \in DOMAIN agg
                   /\ \A f \in AmountColumns :
                          rows[k][f] = toFixed(DateSum(agg, rows[k].date, f))
            /\ \A f \in AmountColumns :
                   rows[Len(rows)][f] = toFixed(GrandSum(agg, f))
            /\ agg = EmptyObject =>
                   rows = <<[kind |-> "grand", original |-> 0,
                             discount |-> 0, actual |-> 0]>>

\* C8's case: a report rendered from an aggregate with two dates, one of
\* them with three buckets.
C8_Witness ==
    /\ Rendered(1)
    /\ Cardinality(DOMAIN billingData[1]) = 2
    /\ Cardinality(RowsOfKind(html[1], "subtotal")) = 2
    /\ \E date \in DOMAIN billingData[1] :
           Cardinality(DOMAIN billingData[1][date]) = 3

\* The billing dates of the requests run i has issued, in order.
DaysQueried(i) == [k \in 1..Len(reqLog[i]) |-> reqLog[i][k].billingDate]

\* C3: getBillingDetails(days) queries exactly the `days` calendar days
\* that end on the current date (the date of the reading taken for
\* endDate), in ascending order, each once, whatever the two clock
\* readings.
C3_DateWindow ==
    \A i \in Invocations :
        (FetchOver(i) /\ \A k \in 1..Len(respLog[i]) :
                             ~Truthy(respLog[i][k].resp.nextToken))
        => DaysQueried(i)
               = [k \in 1..days[i] |-> Civil(endDate[i].day - days[i] + k)]

\* A `days` argument that is absent, not a number, or outside [1, 30].
InvalidDays(a) ==
    \/ "days" \notin DOMAIN a
    \/ a.days.type # "number"
    \/ "num" \notin DOMAIN a.days
    \/ a.days.num < 1
    \/ a.days.num > 30

Started(i) == pc[i] # "idle"

\* C6: a billing tool invoked with a `days` argument that is absent, not a
\* number or outside [1, 30] calls getBillingDetails(7), and no billing
\* tool invocation ever makes the range check of getBillingDetails throw;
\* such an invocation ends in an error only if client construction, mkdir
\* or writeFile failed.  (Which days getBillingDetails(7) then visits is
\* C3's subject.)
C6_DaysCoercedToDefault ==
    \A i \in Invocations : (Started(i) /\ toolName[i] \in BillingTools) =>
        /\ InvalidDays(args[i]) => days[i] = 7
        /\ ~InvalidDays(args[i]) => days[i] = args[i].days.num
        /\ fault[i] # "rangeCheck"
        /\ (pc[i] = "done" /\ outcome[i].kind = "error")
               => fault[i] \in {"createBillingClient", "mkdir", "writeFile"}

\* C6's case: get_billing_info with days = 31 has fetched seven days and
\* returned its result.
C6_Witness ==
    /\ toolName[1] = "get_billing_info"
    /\ "days" \in DOMAIN args[1] /\ args[1].days = Num(31)
    /\ pc[1] = "done" /\ outcome[1].kind = "success"
    /\ days[1] = 7 /\ Cardinality(DatesAsked(1)) = 7

\* The failures of run i that its operation lets out: a throw of client
\* construction, of the instance listing, of mkdir or of writeFile.
Escaped(i) ==
    fault[i] \in {"createEcsClient", "createBillingClient",
                  "describeInstances", "mkdir", "writeFile"}

IsError(i, code) == outcome[i].kind = "error" /\ outcome[i].code = code

\* C7 as stated: an invocation ends in a success result, an InternalError
\* or a MethodNotFound error, MethodNotFound exactly for an unknown tool
\* name, and every failure inside a known operation, a failed upstream call
\* included, ends it in InternalError.
C7_EveryFailureSurfaces ==
    \A i \in Invocations : pc[i] = "done" =>
        /\ \/ outcome[i].kind = "success"
           \/ IsError(i, "InternalError")
           \/ IsError(i, "MethodNotFound")
        /\ IsError(i, "MethodNotFound") <=> toolName[i] \notin KnownTools
        /\ (toolName[i] \in KnownTools
            /\ (fault[i] # "none" \/ SomeFailed(respLog[i])))
               => IsError(i, "InternalError")

\* C7 as amended: an invocation ends in a success result, an InternalError
\* or a MethodNotFound error; MethodNotFound exactly for an unknown tool
\* name; a known tool ends in InternalError exactly when client
\* construction, the instance listing, mkdir or writeFile failed, and a
\* failed billing page request, which getBillingDetails absorbs, does not
\* by itself end the invocation in an error.
C7_ErrorSignalling ==
    \A i \in Invocations : pc[i] = "done" =>
        /\ \/ outcome[i].kind = "success"
           \/ IsError(i, "InternalError")
           \/ IsError(i, "MethodNotFound")
        /\ IsError(i, "MethodNotFound") <=> toolName[i] \notin KnownTools
        /\ toolName[i] \in KnownTools =>
               (IsError(i, "InternalError") <=> Escaped(i))
        /\ toolName[i] \notin KnownTools => fault[i] = "none"

\* C7's case: a report export that lost a billing page and then failed at
\* writeFile has ended in InternalError.
C7_Witness ==
    /\ pc[1] = "done" /\ toolName[1] = "export_billing_report"
    /\ SomeFailed(respLog[1])
    /\ fault[1] = "writeFile"
    /\ IsError(1, "InternalError")

\* C9: a list_instances invocation without a `region` argument sends
\* "cn-hangzhou" in its request and echoes it in its result, at the top
\* level and in every instance, in every environment.
C9_DefaultRegion ==
    \A i \in Invocations :
        (toolName[i] = "list_instances" /\ "region" \notin DOMAIN args[i]) =>
            /\ pc[i] = "awaitDescribe" =>
                   request[i].regionId = SchemaDefaultRegion
            /\ (pc[i] = "done" /\ outcome[i].kind = "success") =>
                   /\ outcome[i].region = SchemaDefaultRegion
                   /\ \A k \in 1..Len(outcome[i].instances) :
                          outcome[i].instances[k].region = SchemaDefaultRegion

\* C10: with two billing invocations interleaved at their page requests,
\* the accumulator of each holds at every moment exactly the items of the
\* successful answers to its own requests, and the aggregate each returns
\* is the aggregate of those items: the one it returns when it runs alone
\* and receives the same answers.
C10_InvocationsIsolated ==
    \A i \in Invocations :
        (Started(i) /\ toolName[i] \in BillingTools) =>
            /\ allItems[i] = ItemsOf(respLog[i])
            /\ \A k \in 1..Len(respLog[i]) :
                   respLog[i][k].billingDate = reqLog[i][k].billingDate
            /\ FetchOver(i) =>
                   /\ billingData[i] = Aggregate(ItemsOf(respLog[i]))
                   /\ toolName[i] = "get_billing_info" =>
                          outcome[i] = [kind |-> "success",
                                        billingData |-> billingData[i]]
                   /\ toolName[i] = "export_billing_report" =>
                          html[i] = generateBillingHtmlReport(
                                        Aggregate(ItemsOf(respLog[i])))

\* C10's case: both invocations are suspended at a page request, each with
\* items accumulated, and the accumulators differ.
C10_Witness ==
    /\ pc[1] = "awaitBill" /\ pc[2] = "awaitBill"
    /\ allItems[1] # <<>> /\ allItems[2] # <<>>
    /\ allItems[1] # allItems[2]

\* The continuation token an answer leaves in nextToken: the one it
\* carries, or none after a failure.
TokenOf(resp) == IF resp.ok THEN resp.nextToken ELSE Undefined

\* Run i is inside getBillingDetails or past it.
Fetching(i) == Started(i) /\ toolName[i] \in BillingTools

\* C11: within one fetch a billing request is outstanding exactly while the
\* run is suspended at queryInstanceBill, and then it is the last one
\* issued and the only one unanswered; the requests are in ascending day
\* order; the first request carries no continuation token; a request that
\* follows an answer with a token is for the same day and carries exactly
\* that token, and a request that follows an answer without a token, or a
\* failure, is for a later day and carries no token.
C11_RequestOrdering ==
    \A i \in Invocations : Fetching(i) =>
        LET asked == reqLog[i]
            answers == respLog[i]
        IN  /\ Len(asked) = Len(answers) + (IF pc[i] = "awaitBill" THEN 1 ELSE 0)
            /\ pc[i] = "awaitBill" => request[i] = asked[Len(asked)]
            /\ pc[i] # "awaitBill" => request[i] = NoRequest
            /\ asked # <<>> => asked[1].nextToken = Undefined
            /\ \A k \in 1..(Len(asked) - 1) :
                   /\ answers[k].billingDate = asked[k].billingDate
                   /\ IF Truthy(TokenOf(answers[k].resp))
                      THEN /\ asked[k + 1].billingDate = asked[k].billingDate
                           /\ asked[k + 1].nextToken = answers[k].resp.nextToken
                      ELSE /\ DateLess(asked[k].billingDate,
                                       asked[k + 1].billingDate)
                           /\ asked[k + 1].nextToken = Undefined
            /\ \A j, k \in 1..Len(asked) :
                   j < k => ~DateLess(asked[k].billingDate, asked[j].billingDate)

\* C11's case: a fetch of two days, the first day in two pages, the second
\* page asked for with the first page's token and the next day's first page
\* without one.
C11_Witness ==
    /\ FetchOver(1) /\ Len(reqLog[1]) >= 3
    /\ respLog[1][1].resp.ok /\ Truthy(respLog[1][1].resp.nextToken)
    /\ reqLog[1][2].billingDate = reqLog[1][1].billingDate
    /\ reqLog[1][2].nextToken = respLog[1][1].resp.nextToken
    /\ reqLog[1][3].billingDate # reqLog[1][1].billingDate
    /\ reqLog[1][3].nextToken = Undefined

\* A failed page request of run i ended its day: the request after it, if
\* there is one, is the first request of a later day, and no later request
\* is for the failed day.
FailureEndsDay(i) ==
    \A k \in 1..Len(respLog[i]) : ~respLog[i][k].resp.ok =>
        /\ k < Len(reqLog[i]) =>
               /\ DateLess(respLog[i][k].billingDate,
                           reqLog[i][k + 1].billingDate)
               /\ reqLog[i][k + 1].nextToken = Undefined
        /\ \A j \in (k + 1)..Len(reqLog[i]) :
               reqLog[i][j].billingDate # respLog[i][k].billingDate
        /\ k = Len(respLog[i]) => nextToken[i] = Undefined

\* C12: when every page request is eventually answered and every day's
\* listing ends, with a page without a continuation token or with a
\* failure, a fetch that has issued a request eventually returns its
\* aggregate to the handler; and a failed page request always ends its
\* day's pagination, whatever token the request carried.
C12_FetchTerminates ==
    /\ [](\A i \in Invocations : FailureEndsDay(i))
    /\ \A i \in Invocations : (pc[i] = "awaitBill") ~> FetchOver(i)

\* C12's case: a request that carried a continuation token failed, the next
\* request was the first of the next day, and the fetch has returned.
C12_Witness ==
    /\ FetchOver(1)
    /\ \E k \in 1..(Len(respLog[1]) - 1) :
           /\ ~respLog[1][k].resp.ok
           /\ Truthy(reqLog[1][k].nextToken)
           /\ reqLog[1][k + 1].billingDate # reqLog[1][k].billingDate
           /\ reqLog[1][k + 1].nextToken = Undefined

\* The requests run i has issued for `date`.
AskedOn(i, date) == SelectSeq(reqLog[i], LAMBDA r : r.billingDate = date)

\* Page k of a day's answers failed after pages 1..k-1 succeeded, k >= 2.
FailedAfterPages(answers, k) ==
    /\ k >= 2 /\ k <= Len(answers)
    /\ ~answers[k].resp.ok
    /\ \A j \in 1..(k - 1) : answers[j].resp.ok

\* A bucket is the three sums and nothing else.
PlainBucket(b) == DOMAIN b = {"original", "discount", "actual"}

\* C13: when page k >= 2 of a day fails after pages 1..k-1 of that day
\* succeeded, the failed request is the day's last; the accumulator holds
\* for that day exactly the items of pages 1..k-1, in order; and in the
\* aggregate returned the day has a bucket for exactly the product codes of
\* those items, each with the sums of their amounts, every item counted
\* once, and made of the three sums only: the day's entry, and the result
\* of get_billing_info, are what they are when the day's listing ends after
\* page k-1, with nothing that tells the day is incomplete.
C13_PartialDayRetained ==
    \A i \in Invocations : \A date \in DatesAsked(i) :
        LET answers == EntriesOn(respLog[i], date)
        IN  \A k \in 1..Len(answers) : FailedAfterPages(answers, k) =>
              LET before == ItemsOf(SubSeq(answers, 1, k - 1))
              IN  /\ k = Len(answers)
                  /\ Len(AskedOn(i, date)) = k
                  /\ answers[k].pageNum = k
                  /\ ItemsOn(allItems[i], date) = before
                  /\ FetchOver(i) =>
                       /\ \A code \in Codes :
                            LET mine == Sel(before, date, code)
                            IN  /\ HasBucket(billingData[i], date, code)
                                       <=> mine # <<>>
                                /\ mine # <<>> =>
                                     /\ PlainBucket(billingData[i][date][code])
                                     /\ billingData[i][date][code].original
                                            = SumField(mine, "pretaxGrossAmount")
                                     /\ billingData[i][date][code].discount
                                            = SumFields(mine, DiscountFields)
                                     /\ billingData[i][date][code].actual
                                            = SumField(mine, "pretaxGrossAmount")
                                              - SumFields(mine, DiscountFields)
                       /\ date \in DOMAIN billingData[i] =>
                              DOMAIN billingData[i][date] \subseteq Codes
                       /\ DOMAIN billingData[i] \subseteq DatesAsked(i)
                       /\ billingData[i]
                              = Aggregate(ItemsOf(SelectSeq(respLog[i],
                                              LAMBDA e : e.resp.ok)))
                       /\ toolName[i] = "get_billing_info" =>
                              outcome[i] = [kind |-> "success",
                                            billingData |-> billingData[i]]

\* C13's case: a day's first page came with items and a continuation token,
\* its second page failed, and the aggregate returned counts the first
\* page's items for that day.
C13_Witness ==
    /\ FetchOver(1)
    /\ \E date \in DatesAsked(1) :
           LET answers == EntriesOn(respLog[1], date)
           IN  /\ FailedAfterPages(answers, 2)
               /\ answers[1].resp.items # <<>>
               /\ HasBucket(billingData[1], date, "ecs")
               /\ billingData[1][date]["ecs"].original
                      = SumField(Sel(answers[1].resp.items, date, "ecs"),
                                 "pretaxGrossAmount")
               /\ billingData[1][date]["ecs"].original > 0

=============================================================================
